---------------------------- MODULE Spec2Model ----------------------------
(***************************************************************************)
(* prefecto: batched Task.map dispatch (BatchTask) with kill switches.     *)
(*                                                                         *)
(* Spec         one BatchTask, its kill switch, the task runs of the       *)
(*              current map call and the engine that drives them.          *)
(* BatchesSpec  BatchTask._make_batches applied to bounded inputs.         *)
(* SwitchSpec   one kill switch fed an arbitrary sequence of states.       *)
(* ConstructSpec  BatchTask.__init__ followed by the map calls of Spec.    *)
(* LazySpec     one property decorated with blocks.lazy_load, accessed     *)
(*              again and again on one instance.                           *)
(* RegistrySpec  Method subclasses defined one after another               *)
(*              (serializers.core).                                        *)
(* BucketSpec   one testing.s3.mock_bucket context, from entry to exit.    *)
(***************************************************************************)
EXTENDS Integers, Sequences, FiniteSets, TLC

VARIABLES
    size,         \* BatchTask.size
    kill_switch,  \* BatchTask._kill_switch (the instance, with its counters)
    calls,        \* number of BatchTask.map calls started on this BatchTask
    pc,           \* position of the control thread inside map/_map
    params,       \* parameters of the current map call (get_call_parameters)
    batches,      \* list returned by _make_batches
    error,        \* the exception the current call raised, if any
    i,            \* 1-based index of the batch _map is working on
    j,            \* 1-based index, inside futures, of the next kill switch check
    futures,      \* ids of the futures of the batch being polled / checked
    runs,         \* engine: task runs created by this call, id -> [args, state]
    results,      \* _map's results list (ids of runs)
    map_calls,    \* history: [batch, futures] of every Task.map call of this call
    observed,     \* history: [future, state, raised] of every raise_if_triggered
    ks0,          \* history: the kill switch as it was when this call started
    fed,          \* SwitchSpec: states given to should_flip_switch so far
    flips,        \* SwitchSpec: what should_flip_switch returned for each
    block,        \* blocks: the instance attribute _<name>_block, or no_attr
    load_calls,   \* blocks: history, what each load_block call came to
    accesses,     \* blocks: history, what each access of the property came to
    registry,     \* serializers.core.__registry__: discriminator -> class
    defined,      \* serializers: history, [attrs, error, cls] per class body
    mock_args,    \* mock_bucket: its arguments [export_path, keys, processes]
    objects,      \* mock_bucket: the bucket's objects, key -> body
    files,        \* mock_bucket: files below export_path, path -> contents
    pending       \* mock_bucket: exports handed to the pool and not yet run

\* concurrency.batch_task and concurrency.kill_switch, without pc
dispatch_vars == <<size, kill_switch, calls, params, batches, error, i, j,
                   futures, runs, results, map_calls, observed, ks0, fed,
                   flips>>
blocks_vars == <<block, load_calls, accesses>>
serializers_vars == <<registry, defined>>
s3_vars == <<mock_args, objects, files, pending>>
\* What the actions of BatchTask and of the kill switches never touch
other_modules == <<blocks_vars, serializers_vars, s3_vars>>

vars == <<pc, dispatch_vars, blocks_vars, serializers_vars, s3_vars>>

---------------------------------------------------------------------------
(* Bounds *)
MaxAccesses == 4
MaxClasses == 3
MaxProcesses == 2
MaxSize == 2
MaxLen == 3
MaxCount == 2
MaxCalls == 2
MaxFeed == 4
MaxBatchSize == 3
MaxBatchLen == 5

---------------------------------------------------------------------------
(* Small helpers *)
Min(x, y) == IF x <= y THEN x ELSE y

RECURSIVE Concat(_)
Concat(ss) == IF ss = <<>> THEN <<>> ELSE Head(ss) \o Concat(Tail(ss))

\* Variant: the slice runs one element too far (hi taken as inclusive)
M_Slice_Inclusive(s, lo, hi) ==
    LET h == Min(hi + 1, Len(s))
    IN  IF lo >= h THEN <<>> ELSE SubSeq(s, lo + 1, h)

\* Python's seq[lo:hi] for 0 <= lo, with hi clipped to the length.
Slice(s, lo, hi) ==
    LET h == Min(hi, Len(s))
    IN  IF lo >= h THEN <<>> ELSE SubSeq(s, lo + 1, h)

---------------------------------------------------------------------------
(* Task run states (prefect.states.State, by type) *)
TerminalStates == {"Cancelled", "Completed", "Crashed", "Failed"}
ActiveStates == {"Pending", "Running"}
States == TerminalStates \cup ActiveStates

is_cancelled(state) == state = "Cancelled"
is_completed(state) == state = "Completed"
is_crashed(state) == state = "Crashed"
is_failed(state) == state = "Failed"

\* Variant: a cancelled state does not count as terminal
M_is_terminal_NotCancelled(state) ==
    \/ is_completed(state)
    \/ is_crashed(state)
    \/ is_failed(state)

\* Variant: a running state counts as terminal
M_is_terminal_Running(state) == ~(state = "Pending")

\* prefecto.states.is_terminal
is_terminal(state) ==
    \/ is_cancelled(state)
    \/ is_completed(state)
    \/ is_crashed(state)
    \/ is_failed(state)

---------------------------------------------------------------------------
(* Kill switches.  One record shape for the three classes; a field a class *)
(* does not have stays 0.  max_fail_rate is the fraction rate_num/rate_den. *)
NoSwitch == [kind |-> "None", max_count |-> 0, min_sample |-> 0,
             rate_num |-> 0, rate_den |-> 1,
             current_count |-> 0, failed_count |-> 0]

AnyFailedSwitch == [NoSwitch EXCEPT !.kind = "AnyFailedSwitch"]

\* CountSwitch.__init__
CountSwitch(max_count) ==
    [NoSwitch EXCEPT !.kind = "CountSwitch", !.max_count = max_count,
                     !.current_count = 0]

\* RateSwitch.__init__
RateSwitch(min_sample, num, den) ==
    [NoSwitch EXCEPT !.kind = "RateSwitch", !.min_sample = min_sample,
                     !.rate_num = num, !.rate_den = den,
                     !.current_count = 0, !.failed_count = 0]

\* Variant: crashed states do not trigger
M_AnyFailed_FailedOnly(ks, state) == [ks |-> ks, flip |-> is_failed(state)]

\* AnyFailedSwitch.should_flip_switch
AnyFailed_should_flip_switch(ks, state) ==
    [ks |-> ks, flip |-> is_failed(state) \/ is_crashed(state)]

\* Variant: every state is counted, failed or not
M_CountSwitch_CountsAll(ks, state) ==
    LET c == ks.current_count + 1
    IN  [ks |-> [ks EXCEPT !.current_count = c], flip |-> c >= ks.max_count]

\* Variant: the count must equal the threshold
M_CountSwitch_Equals(ks, state) ==
    LET c == IF is_failed(state) \/ is_crashed(state)
             THEN ks.current_count + 1 ELSE ks.current_count
    IN  [ks |-> [ks EXCEPT !.current_count = c], flip |-> c = ks.max_count]

\* Variant: crashed states are not counted
M_CountSwitch_FailedOnly(ks, state) ==
    LET c == IF is_failed(state)
             THEN ks.current_count + 1 ELSE ks.current_count
    IN  [ks |-> [ks EXCEPT !.current_count = c], flip |-> c >= ks.max_count]

\* Variant: the threshold must be exceeded, not reached
M_CountSwitch_Exceeds(ks, state) ==
    LET c == IF is_failed(state) \/ is_crashed(state)
             THEN ks.current_count + 1 ELSE ks.current_count
    IN  [ks |-> [ks EXCEPT !.current_count = c], flip |-> c > ks.max_count]

\* CountSwitch.should_flip_switch
CountSwitch_should_flip_switch(ks, state) ==
    LET c == IF is_failed(state) \/ is_crashed(state)
             THEN ks.current_count + 1 ELSE ks.current_count
    IN  [ks |-> [ks EXCEPT !.current_count = c], flip |-> c >= ks.max_count]

\* Variant: only failed and crashed states are counted as seen
M_RateSwitch_CountsFailures(ks, state) ==
    LET f == IF is_failed(state) \/ is_crashed(state)
             THEN ks.failed_count + 1 ELSE ks.failed_count
    IN  [ks |-> [ks EXCEPT !.current_count = f, !.failed_count = f],
         flip |-> f >= ks.min_sample /\ f * ks.rate_den >= ks.rate_num * f]

\* Variant: only failed states count as failures, crashed ones do not
M_RateSwitch_FailedOnly(ks, state) ==
    LET c == ks.current_count + 1
        f == IF is_failed(state)
             THEN ks.failed_count + 1 ELSE ks.failed_count
    IN  [ks |-> [ks EXCEPT !.current_count = c, !.failed_count = f],
         flip |-> c >= ks.min_sample /\ f * ks.rate_den >= ks.rate_num * c]

\* Variant: the rate must be exceeded, not reached
M_RateSwitch_Exceeds(ks, state) ==
    LET c == ks.current_count + 1
        f == IF is_failed(state) \/ is_crashed(state)
             THEN ks.failed_count + 1 ELSE ks.failed_count
    IN  [ks |-> [ks EXCEPT !.current_count = c, !.failed_count = f],
         flip |-> c >= ks.min_sample /\ f * ks.rate_den > ks.rate_num * c]

\* RateSwitch.should_flip_switch; failed/current >= num/den with current > 0
RateSwitch_should_flip_switch(ks, state) ==
    LET c == ks.current_count + 1
        f == IF is_failed(state) \/ is_crashed(state)
             THEN ks.failed_count + 1 ELSE ks.failed_count
    IN  [ks |-> [ks EXCEPT !.current_count = c, !.failed_count = f],
         flip |-> c >= ks.min_sample /\ f * ks.rate_den >= ks.rate_num * c]

\* KillSwitch.should_flip_switch, dispatched on the instance's class
should_flip_switch(ks, state) ==
    CASE ks.kind = "AnyFailedSwitch" -> AnyFailed_should_flip_switch(ks, state)
      [] ks.kind = "CountSwitch" -> CountSwitch_should_flip_switch(ks, state)
      [] ks.kind = "RateSwitch" -> RateSwitch_should_flip_switch(ks, state)

\* Exceptions: what was raised, with the fields its message is built from;
\* ks is the switch a KillSwitchError refers to (KillSwitchError.ks)
NoError == [type |-> "None", text |-> "", ref |-> "", key |-> "",
            length |-> 0, klen |-> 0, ks |-> NoSwitch]
ValueError(text) == [NoError EXCEPT !.type = "ValueError", !.text = text]
\* KillSwitchError(message, ks)
KillSwitchError(ks) == [NoError EXCEPT !.type = "KillSwitchError", !.ks = ks]

\* Variant: the switch is advanced but the error is never raised
M_raise_if_triggered_Silent(ks, state) ==
    [ks |-> should_flip_switch(ks, state).ks, raised |-> FALSE,
     error |-> NoError]

\* Variant: should_flip_switch is called a second time for the same state
M_raise_if_triggered_Twice(ks, state) ==
    LET r == should_flip_switch(should_flip_switch(ks, state).ks, state)
    IN  [ks |-> r.ks, raised |-> r.flip,
         error |-> IF r.flip THEN KillSwitchError(r.ks) ELSE NoError]

\* KillSwitch.raise_if_triggered: one should_flip_switch call, then the
\* raise of KillSwitchError(message, self)
raise_if_triggered(ks, state) ==
    LET r == should_flip_switch(ks, state)
    IN  [ks |-> r.ks, raised |-> r.flip,
         error |-> IF r.flip THEN KillSwitchError(r.ks) ELSE NoError]

\* The kill switches a BatchTask is built with
KillSwitches ==
    {NoSwitch, AnyFailedSwitch}
    \cup {CountSwitch(n) : n \in 1..MaxCount}
    \cup {RateSwitch(2, 1, 2), RateSwitch(3, 1, 2)}

---------------------------------------------------------------------------
(* Map arguments: a list, an unmapped(value) annotation, or a value that   *)
(* is not iterable.                                                         *)
List(items) == [kind |-> "list", items |-> items]
Unmapped(value) == [kind |-> "unmapped", value |-> value]
Scalar(value) == [kind |-> "scalar", value |-> value]

\* isinstance(v, unmapped)
is_unmapped(v) == v.kind = "unmapped"
\* Variant: only lists count as iterable
M_has_iter_ListsOnly(v) == v.kind = "list"

\* hasattr(v, "__iter__"): lists and the unmapped annotation (a named tuple)
has_iter(v) == v.kind \in {"list", "unmapped"}
\* len(v): the length of a list; unmapped is a one-field named tuple
len(v) == IF v.kind = "list" THEN Len(v.items) ELSE 1

\* Parameter names in lexicographic order; sorted(params.keys())
ParamNames == <<"a", "b", "c">>
\* Variant: the names are taken in descending order
M_sorted_Reversed(keys) ==
    LET up == SelectSeq(ParamNames, LAMBDA n : n \in keys)
    IN  [k \in 1..Len(up) |-> up[Len(up) + 1 - k]]

sorted(keys) == SelectSeq(ParamNames, LAMBDA n : n \in keys)

\* Index of the first entry of seq, from index k on, that is in S; 0 when
\* there is none (a for loop that stops at its first hit)
FirstFrom(seq, k, S) ==
    LET hits == {n \in k..Len(seq) : seq[n] \in S}
    IN  IF hits = {} THEN 0 ELSE CHOOSE n \in hits : \A m \in hits : n <= m

\* Variant: the length is taken from parameters[0], unmapped or not
M_FirstNonUnmapped_First(parameters, ps) ==
    IF Len(parameters) = 0 THEN 0 ELSE 1

\* Variant: the for loop has no else branch; with no non-unmapped parameter
\* the length is taken from the first parameter
M_FirstNonUnmapped_NoElse(parameters, ps) ==
    LET n == FirstFrom(parameters, 1,
                       {k \in DOMAIN ps : ~is_unmapped(ps[k])})
    IN  IF n = 0 THEN 1 ELSE n

\* for j, name in enumerate(parameters): the first non-unmapped parameter
FirstNonUnmapped(parameters, ps) ==
    FirstFrom(parameters, 1, {k \in DOMAIN ps : ~is_unmapped(ps[k])})

\* Variant: the unmapped arguments are left out of the batch
M_BatchOf_ListsOnly(ps, lo, hi) ==
    [p \in {q \in DOMAIN ps : ~is_unmapped(ps[q])} |->
        List(Slice(ps[p].items, lo, hi))]

\* One batch of _make_batches: the slice [lo:hi] of every list, the
\* unmapped arguments as they are
BatchOf(ps, lo, hi) ==
    [p \in DOMAIN ps |->
        IF is_unmapped(ps[p]) THEN ps[p]
        ELSE List(Slice(ps[p].items, lo, hi))]

\* Variant: the full batches hold twice size elements
M_FullBatches_Doubled(sz, ps, length) ==
    [n \in 1..(length \div (2 * sz)) |->
        BatchOf(ps, (n - 1) * 2 * sz, n * 2 * sz)]

\* Variant: the range of the full batches starts at 1
M_FullBatches_FromOne(sz, ps, length) ==
    [n \in 1..(length \div sz) |-> BatchOf(ps, n * sz, (n + 1) * sz)]

\* The full batches, for i in range(length // size)
FullBatches(sz, ps, length) ==
    [n \in 1..(length \div sz) |-> BatchOf(ps, (n - 1) * sz, n * sz)]

\* Variant: the remainder batch holds the last size elements
M_Remainder_LastSize(sz, ps, length) ==
    IF length % sz # 0
    THEN <<BatchOf(ps, IF length > sz THEN length - sz ELSE 0, length)>>
    ELSE <<>>

\* Variant: a remainder batch is appended whatever the length
M_Remainder_Always(sz, ps, length) ==
    <<BatchOf(ps, (length \div sz) * sz, length)>>

\* Variant: the remainder batch is forgotten
M_Remainder_Dropped(sz, ps, length) == <<>>

\* The remainder batch, when length % size != 0
Remainder(sz, ps, length) ==
    IF length % sz # 0
    THEN <<BatchOf(ps, (length \div sz) * sz, length)>>
    ELSE <<>>

\* Variant: no length is compared
M_FirstMismatch_None(parameters, ps, jj, length) == 0

\* Variant: only the parameter right after the reference one is compared
M_FirstMismatch_NextOnly(parameters, ps, jj, length) ==
    IF /\ jj + 1 <= Len(parameters)
       /\ ~is_unmapped(ps[parameters[jj + 1]])
       /\ ~(len(ps[parameters[jj + 1]]) = length)
    THEN jj + 1 ELSE 0

\* for k in parameters[j + 1:]: the first non-unmapped parameter whose
\* length is not length, 0 when all agree
FirstMismatch(parameters, ps, jj, length) ==
    FirstFrom(parameters, jj + 1,
              {k \in DOMAIN ps :
                   ~is_unmapped(ps[k]) /\ ~(len(ps[k]) = length)})

\* BatchTask._make_batches(**ps) of a BatchTask of size sz:
\* [error, batches]
make_batches(sz, ps) ==
    LET parameters == sorted(DOMAIN ps)
        bad == FirstFrom(parameters, 1, {k \in DOMAIN ps : ~has_iter(ps[k])})
        jj == FirstNonUnmapped(parameters, ps)
        length == len(ps[parameters[jj]])
        mis == FirstMismatch(parameters, ps, jj, length)
    IN  IF Len(parameters) = 0
        THEN [error |-> ValueError("Must provide at least one iterable."),
              batches |-> <<>>]
        ELSE IF bad # 0
        THEN [error |-> [ValueError("Expected to be an iterable.")
                            EXCEPT !.key = parameters[bad]],
              batches |-> <<>>]
        ELSE IF jj = 0
        THEN [error |->
                ValueError("Must provide at least one non-unmapped iterable."),
              batches |-> <<>>]
        ELSE IF mis # 0
        THEN [error |-> [ValueError("Expected all iterables to be of length.")
                            EXCEPT !.length = length, !.ref = parameters[jj],
                                   !.key = parameters[mis],
                                   !.klen = len(ps[parameters[mis]])],
              batches |-> <<>>]
        ELSE [error |-> NoError,
              batches |-> FullBatches(sz, ps, length)
                          \o Remainder(sz, ps, length)]

---------------------------------------------------------------------------
(* The engine: Task.map and the task runs it creates *)

\* Number of items of a batch: the common length of its lists
BatchLen(batch) ==
    LET lists == {p \in DOMAIN batch : ~is_unmapped(batch[p])}
    IN  IF lists = {} THEN 0 ELSE len(batch[CHOOSE p \in lists : TRUE])

\* Task.map(**batch): one pending task run per item, in item order; an
\* unmapped argument is passed unwrapped to every run
TaskMap(batch) ==
    [k \in 1..BatchLen(batch) |->
        [args |-> [p \in DOMAIN batch |->
                      IF is_unmapped(batch[p]) THEN batch[p].value
                      ELSE batch[p].items[k]],
         state |-> "Pending"]]

\* future.get_state()
get_state(f) == runs[f].state

---------------------------------------------------------------------------
(* Inputs of the map calls *)
Iota(lo, n) == [k \in 1..n |-> lo + k - 1]

NoParams == [n \in {} |-> List(<<>>)]

DispatchParams ==
    {[a |-> List(Iota(1, L)), b |-> List(Iota(2, L))] : L \in 0..MaxLen}
    \cup {[a |-> Unmapped(1), b |-> List(Iota(2, L))] : L \in 0..MaxLen}
    \cup {[a |-> List(Iota(1, L)), b |-> List(Iota(2, L - 1))] : L \in 1..2}
    \cup {[a |-> Unmapped(1), b |-> Unmapped(2)]}
    \cup {[a |-> Scalar(1), b |-> List(Iota(2, 1))]}
    \cup {NoParams}

---------------------------------------------------------------------------
(* The modules beside the dispatcher, before anything is done with them *)

\* None, as an argument
None == "None"

\* None, where a Block object is expected: getattr(self, block_varname, None)
\* of an instance without the attribute
NoBlock == [id |-> 0]

\* __registry__: dict[str, "Method"] = {}
EmptyRegistry == [d \in {} |-> 0]

\* mock_bucket not entered; keys_given is "keys is not None"
NoMock == [bucket_name |-> "", export_path |-> None, keys_given |-> FALSE,
           keys |-> {}, processes |-> 0]

\* An empty bucket, an empty directory
NoObjects == [k \in {} |-> ""]
NoFiles == [f \in {} |-> ""]

OtherModulesInit ==
    /\ block = [p \in {} |-> NoBlock]
    /\ load_calls = <<>>
    /\ accesses = <<>>
    /\ registry = EmptyRegistry
    /\ defined = <<>>
    /\ mock_args = NoMock
    /\ objects = NoObjects
    /\ files = NoFiles
    /\ pending = {}

\* No BatchTask in play
DispatchIdle ==
    /\ size = 1
    /\ kill_switch = NoSwitch
    /\ calls = 0
    /\ params = NoParams
    /\ batches = <<>>
    /\ error = NoError
    /\ i = 0
    /\ j = 0
    /\ futures = <<>>
    /\ runs = <<>>
    /\ results = <<>>
    /\ map_calls = <<>>
    /\ observed = <<>>
    /\ ks0 = NoSwitch
    /\ fed = <<>>
    /\ flips = <<>>

---------------------------------------------------------------------------
(* BatchTask.map / BatchTask._map, one action per step of the control      *)
(* thread                                                                   *)

Init ==
    /\ size \in 1..MaxSize
    /\ kill_switch \in KillSwitches
    /\ calls = 0
    /\ pc = "idle"
    /\ params = NoParams
    /\ batches = <<>>
    /\ error = NoError
    /\ i = 0
    /\ j = 0
    /\ futures = <<>>
    /\ runs = <<>>
    /\ results = <<>>
    /\ map_calls = <<>>
    /\ observed = <<>>
    /\ ks0 = kill_switch
    /\ fed = <<>>
    /\ flips = <<>>
    /\ OtherModulesInit

\* Variant: the loop stops one batch early (batches[:-2])
M_InLoop_SkipOne(n, bs) == n + 1 < Len(bs)

\* Variant: the loop runs over every batch, the last one included
M_InLoop_All(n, bs) == n <= Len(bs)

\* for i, batch in enumerate(batches[:-1]): is there a batch left for the loop
InLoop(n, bs) == n < Len(bs)

\* Variant: the loop over batches[:-1] is skipped
M_NextBatch_LastOnly(n, bs) == "last"

\* Where _map goes once batch i is done with (or the loop is entered)
NextBatch(n, bs) == IF InLoop(n, bs) THEN "submit" ELSE "last"

\* BatchTask.map(**p) up to the first Task.map call of _map
Map(p) ==
    /\ pc \in {"idle", "returned", "raised"}
    /\ calls < MaxCalls
    /\ calls' = calls + 1
    /\ params' = p
    /\ ks0' = kill_switch
    /\ observed' = <<>>
    /\ map_calls' = <<>>
    /\ runs' = <<>>
    /\ results' = <<>>
    /\ futures' = <<>>
    /\ j' = 0
    /\ LET r == make_batches(size, p)
       IN  /\ error' = r.error
           /\ batches' = r.batches
           /\ IF r.error.type # "None"
              THEN pc' = "raised" /\ i' = 0
              ELSE IF Len(r.batches) = 0
              THEN pc' = "returned" /\ i' = 0
              ELSE pc' = NextBatch(1, r.batches) /\ i' = 1
    /\ UNCHANGED <<size, kill_switch, fed, flips,
                   other_modules>>

\* futures = self.task.map(**batch); results.extend(futures)
Submit ==
    /\ pc = "submit"
    /\ LET new == TaskMap(batches[i])
           ids == [k \in 1..Len(new) |-> Len(runs) + k]
       IN  /\ runs' = runs \o new
           /\ futures' = ids
           /\ results' = results \o ids
    /\ map_calls' = Append(map_calls, [batch |-> i, futures |-> futures'])
    /\ pc' = "poll"
    /\ UNCHANGED <<size, kill_switch, calls, params, batches, error, i, j,
                   observed, ks0, fed, flips,
                   other_modules>>

\* Variant: the poll never finds the batch done
M_AllTerminal_Never(fs) == FALSE

\* Variant: any() instead of all()
M_AllTerminal_Any(fs) == \E k \in 1..Len(fs) : is_terminal(get_state(fs[k]))

\* Variant: the batch is not polled at all
M_AllTerminal_NoPoll(fs) == TRUE

\* all(states.is_terminal(f.get_state()) for f in futures)
AllTerminal(fs) == \A k \in 1..Len(fs) : is_terminal(get_state(fs[k]))

\* if self._kill_switch is not None
HasKillSwitch == kill_switch.kind # "None"

\* The poll that ends the while loop; a poll that finds an active future
\* changes nothing and loops
Poll ==
    /\ pc = "poll"
    /\ AllTerminal(futures)
    /\ IF HasKillSwitch /\ Len(futures) > 0
       THEN pc' = "check" /\ j' = 1 /\ i' = i
       ELSE pc' = NextBatch(i + 1, batches) /\ j' = j /\ i' = i + 1
    /\ UNCHANGED <<size, kill_switch, calls, params, batches, error, futures,
                   runs, results, map_calls, observed, ks0, fed, flips,
                   other_modules>>

\* Variant: the futures of a batch are checked last to first
M_NextFuture_Reversed(fs, n) == fs[Len(fs) + 1 - n]

\* for f in futures: the n-th future the loop takes
NextFuture(fs, n) == fs[n]

\* Variant: when the kill switch raises, the submitted runs are cancelled
M_AfterCheck_Cancelled(rs, raised) ==
    IF raised THEN [f \in DOMAIN rs |-> [rs[f] EXCEPT !.state = "Cancelled"]]
    ELSE rs

\* The task runs after one kill switch evaluation: the loop body calls
\* raise_if_triggered and nothing else, whether it raises or not
AfterCheck(rs, raised) == rs

\* self._kill_switch.raise_if_triggered(f.get_state()) for the j-th future
Check ==
    /\ pc = "check"
    /\ LET f == NextFuture(futures, j)
           r == raise_if_triggered(kill_switch, get_state(f))
       IN  /\ kill_switch' = r.ks
           /\ runs' = AfterCheck(runs, r.raised)
           /\ observed' = Append(observed,
                                 [future |-> f, state |-> get_state(f),
                                  raised |-> r.raised])
           /\ IF r.raised
              THEN pc' = "raised" /\ error' = r.error
                   /\ i' = i /\ j' = j
              ELSE IF j < Len(futures)
              THEN pc' = "check" /\ error' = error /\ i' = i /\ j' = j + 1
              ELSE pc' = NextBatch(i + 1, batches) /\ error' = error
                   /\ i' = i + 1 /\ j' = j
    /\ UNCHANGED <<size, calls, params, batches, futures, results,
                   map_calls, ks0, fed, flips,
                   other_modules>>

\* results.extend(self.task.map(**batches[-1])); return results
Last ==
    /\ pc = "last"
    /\ LET new == TaskMap(batches[Len(batches)])
           ids == [k \in 1..Len(new) |-> Len(runs) + k]
       IN  /\ runs' = runs \o new
           /\ results' = results \o ids
           /\ map_calls' = Append(map_calls,
                                  [batch |-> Len(batches), futures |-> ids])
    /\ pc' = "returned"
    /\ UNCHANGED <<size, kill_switch, calls, params, batches, error, i, j,
                   futures, observed, ks0, fed, flips,
                   other_modules>>

(* The engine's workers *)
EngineFrame == <<size, kill_switch, calls, pc, params, batches, error, i, j,
                 futures, results, map_calls, observed, ks0, fed, flips,
                 other_modules>>

Start(f) ==
    /\ runs[f].state = "Pending"
    /\ runs' = [runs EXCEPT ![f].state = "Running"]
    /\ UNCHANGED EngineFrame

Finish(f, outcome) ==
    /\ runs[f].state = "Running"
    /\ runs' = [runs EXCEPT ![f].state = outcome]
    /\ UNCHANGED EngineFrame

Cancel(f) ==
    /\ runs[f].state \in ActiveStates
    /\ runs' = [runs EXCEPT ![f].state = "Cancelled"]
    /\ UNCHANGED EngineFrame

Next ==
    \/ \E p \in DispatchParams : Map(p)
    \/ Submit
    \/ Poll
    \/ Check
    \/ Last
    \/ \E f \in DOMAIN runs : Start(f)
    \/ \E f \in DOMAIN runs : \E o \in {"Completed", "Failed", "Crashed"} :
           Finish(f, o)
    \/ \E f \in DOMAIN runs : Cancel(f)

Spec == Init /\ [][Next]_vars

---------------------------------------------------------------------------
(* BatchesSpec: _make_batches on its own *)

BatchValues ==
    {List(Iota(lo, L)) : lo \in 1..2, L \in 0..MaxBatchLen}
    \cup {Unmapped(0), Unmapped(1), Scalar(1)}

BatchParams ==
    UNION {[names -> BatchValues] : names \in SUBSET {"a", "b", "c"}}

BatchesInit ==
    /\ size \in 1..MaxBatchSize
    /\ params \in BatchParams
    /\ pc = "make"
    /\ kill_switch = NoSwitch
    /\ calls = 0
    /\ batches = <<>>
    /\ error = NoError
    /\ i = 0
    /\ j = 0
    /\ futures = <<>>
    /\ runs = <<>>
    /\ results = <<>>
    /\ map_calls = <<>>
    /\ observed = <<>>
    /\ ks0 = NoSwitch
    /\ fed = <<>>
    /\ flips = <<>>
    /\ OtherModulesInit

\* batches = self._make_batches(**params), or the ValueError it raises
MakeBatches ==
    /\ pc = "make"
    /\ LET r == make_batches(size, params)
       IN  /\ batches' = r.batches
           /\ error' = r.error
           /\ pc' = IF r.error.type = "None" THEN "made" ELSE "raised"
    /\ UNCHANGED <<size, kill_switch, calls, params, i, j, futures, runs,
                   results, map_calls, observed, ks0, fed, flips,
                   other_modules>>

BatchesNext == MakeBatches

BatchesSpec == BatchesInit /\ [][BatchesNext]_vars

---------------------------------------------------------------------------
(* SwitchSpec: one kill switch instance fed one state after another *)

SwitchInstances ==
    {AnyFailedSwitch}
    \cup {CountSwitch(n) : n \in 0..MaxCount}
    \cup {RateSwitch(m, 1, 2) : m \in (-1)..3}
    \cup {RateSwitch(2, 1, 1), RateSwitch(1, 0, 1)}

SwitchInit ==
    /\ kill_switch \in SwitchInstances
    /\ ks0 = kill_switch
    /\ fed = <<>>
    /\ flips = <<>>
    /\ pc = "switch"
    /\ size = 1
    /\ calls = 0
    /\ params = NoParams
    /\ batches = <<>>
    /\ error = NoError
    /\ i = 0
    /\ j = 0
    /\ futures = <<>>
    /\ runs = <<>>
    /\ results = <<>>
    /\ map_calls = <<>>
    /\ observed = <<>>
    /\ OtherModulesInit

\* kill_switch.should_flip_switch(state)
Feed(state) ==
    /\ pc = "switch"
    /\ Len(fed) < MaxFeed
    /\ LET r == should_flip_switch(kill_switch, state)
       IN  /\ kill_switch' = r.ks
           /\ flips' = Append(flips, r.flip)
    /\ fed' = Append(fed, state)
    /\ UNCHANGED <<size, calls, pc, params, batches, error, i, j, futures,
                   runs, results, map_calls, observed, ks0,
                   other_modules>>

SwitchNext == \E state \in States : Feed(state)

SwitchSpec == SwitchInit /\ [][SwitchNext]_vars

---------------------------------------------------------------------------
(* Properties of _make_batches (BatchesSpec) *)

Ceil(n, d) == (n + d - 1) \div d

\* The list parameters of the call, and their common length
ListParams == {p \in DOMAIN params : params[p].kind = "list"}
CallLength == len(params[CHOOSE p \in ListParams : TRUE])

\* Every parameter is a list and all have the same length
EqualLengthLists ==
    /\ DOMAIN params # {}
    /\ ListParams = DOMAIN params
    /\ \A p, q \in ListParams : len(params[p]) = len(params[q])

\* The slices of parameter p over the batches, in batch order
SlicesOf(p) == [n \in 1..Len(batches) |-> batches[n][p].items]

\* C4: for every positive size and equal-length sequences of length L,
\* _make_batches returns ceil(L/size) batches and, for each parameter, the
\* concatenation of its slices in batch order is the original sequence.
C4_RoundTrip ==
    /\ (pc # "make" /\ EqualLengthLists) => pc = "made"
    /\ pc = "made" =>
          /\ Len(batches) = Ceil(CallLength, size)
          /\ \A p \in ListParams : Concat(SlicesOf(p)) = params[p].items

C4_Witness ==
    /\ pc = "made"
    /\ size = 3
    /\ params = [a |-> List(<<1, 2, 3, 4, 5>>), b |-> List(<<2, 3, 4, 5, 6>>)]
    /\ Len(batches) = 2
    /\ Concat(SlicesOf("a")) = <<1, 2, 3, 4, 5>>

\* The elements of s at the 0-based indices [lo, hi)
Elements(s, lo, hi) == [k \in 1..(hi - lo) |-> s[lo + k]]

\* C5: the i-th batch (0-based) holds, for every non-broadcast parameter,
\* exactly the elements at indices [i*size, min((i+1)*size, L)); when L is a
\* multiple of size no shorter remainder batch is appended; size 3 with
\* a=[1..5], b=[2..6] gives [{a:[1,2,3],b:[2,3,4]},{a:[4,5],b:[5,6]}].
C5_BatchSlices ==
    pc = "made" =>
       /\ \A n \in 1..Len(batches) : \A p \in ListParams :
             batches[n][p] =
                List(Elements(params[p].items, (n - 1) * size,
                              Min(n * size, CallLength)))
       /\ CallLength % size = 0 =>
             /\ Len(batches) = CallLength \div size
             /\ \A n \in 1..Len(batches) : \A p \in ListParams :
                   len(batches[n][p]) = size
       /\ (/\ size = 3
           /\ params = [a |-> List(<<1, 2, 3, 4, 5>>),
                        b |-> List(<<2, 3, 4, 5, 6>>)])
          => batches = <<[a |-> List(<<1, 2, 3>>), b |-> List(<<2, 3, 4>>)],
                         [a |-> List(<<4, 5>>), b |-> List(<<5, 6>>)]>>

C5_Witness ==
    /\ pc = "made"
    /\ size = 2
    /\ params = [a |-> List(<<1, 2, 3, 4>>), c |-> List(<<2, 3, 4, 5>>)]
    /\ batches = <<[a |-> List(<<1, 2>>), c |-> List(<<2, 3>>)],
                   [a |-> List(<<3, 4>>), c |-> List(<<4, 5>>)]>>

UnmappedParams == {p \in DOMAIN params : is_unmapped(params[p])}

\* The call's parameters without the unmapped ones
WithoutUnmapped == [p \in DOMAIN params \ UnmappedParams |-> params[p]]

\* C6: every unmapped parameter appears in every batch, under its name, as
\* the identical unmapped value, never sliced; and it takes no part in the
\* length computation or the equal-length check wherever it sorts: the
\* outcome (error or batches of the other parameters) is that of the call
\* without the unmapped parameters.
C6_UnmappedUntouched ==
    /\ pc = "made" =>
          \A n \in 1..Len(batches) :
             /\ DOMAIN batches[n] = DOMAIN params
             /\ \A p \in UnmappedParams : batches[n][p] = params[p]
    /\ (pc # "make" /\ UnmappedParams # DOMAIN params) =>
          LET r == make_batches(size, WithoutUnmapped)
          IN  /\ error = r.error
              /\ Len(batches) = Len(r.batches)
              /\ \A n \in 1..Len(batches) :
                    \A p \in DOMAIN params \ UnmappedParams :
                       batches[n][p] = r.batches[n][p]

C6_Witness ==
    /\ pc = "made"
    /\ size = 3
    /\ params = [a |-> Unmapped(1), b |-> List(<<2, 3, 4, 5, 6>>),
                 c |-> Unmapped(0)]
    /\ batches = <<[a |-> Unmapped(1), b |-> List(<<2, 3, 4>>),
                    c |-> Unmapped(0)],
                   [a |-> Unmapped(1), b |-> List(<<5, 6>>),
                    c |-> Unmapped(0)]>>

---------------------------------------------------------------------------
(* Properties of the kill switches (SwitchSpec) *)

IsFailure(state) == state \in {"Failed", "Crashed"}

\* Number of Failed/Crashed states among the first k states of seq
NumFailures(seq, k) == Cardinality({n \in 1..k : IsFailure(seq[n])})

---------------------------------------------------------------------------
(* Properties of BatchTask.map (Spec) *)

\* A map call has been made on the BatchTask
InCall == calls >= 1

SeqRange(seq) == {seq[k] : k \in 1..Len(seq)}

\* The futures the n-th Task.map call of this map call returned
SubmittedBy(n) == SeqRange(map_calls[n].futures)

\* The futures Task.map returned for the final batch, once it is mapped
FinalFutures ==
    UNION {SubmittedBy(n) : n \in {m \in 1..Len(map_calls) :
                                      map_calls[m].batch = Len(batches)}}

\* Number of runs of the first n Task.map calls that failed or crashed
FailedInBatches(n) ==
    Cardinality({f \in UNION {SubmittedBy(m) : m \in 1..n} :
                    IsFailure(get_state(f))})

\* The states handed to the kill switch by this map call, in order
ObservedStates == [m \in 1..Len(observed) |-> observed[m].state]

\* The kill switch started this map call with its counters at zero
FreshSwitch == ks0.current_count = 0 /\ ks0.failed_count = 0

\* C1: batches are submitted strictly in partition order, and batch N+1 is
\* submitted only after every future of batch N is terminal and the kill
\* switch, if any, was evaluated on every future of batch N without
\* triggering.
C1_BatchOrder ==
    /\ \A n \in 1..Len(map_calls) : map_calls[n].batch = n
    /\ \A n \in 1..(Len(map_calls) - 1) : \A f \in SubmittedBy(n) :
          /\ is_terminal(get_state(f))
          /\ HasKillSwitch =>
                \E m \in 1..Len(observed) :
                   /\ observed[m].future = f
                   /\ observed[m].state = get_state(f)
                   /\ ~observed[m].raised

C1_Witness ==
    /\ Len(map_calls) = 3
    /\ kill_switch.kind = "CountSwitch"
    /\ get_state(1) = "Failed"
    /\ get_state(2) = "Completed"
    /\ Len(observed) = 2

\* C2: when the kill switch triggers while non-final batch k is evaluated,
\* KillSwitchError is raised at once and no later batch is submitted: the
\* call has made exactly k Task.map submissions.  With a new CountSwitch(n)
\* and n failures inside the first batch, the second batch is not submitted.
C2_AbortStopsSubmission ==
    /\ \A m \in 1..Len(observed) :
          observed[m].raised =>
             /\ m = Len(observed)
             /\ error.type = "KillSwitchError"
    /\ error.type = "KillSwitchError" =>
          /\ pc = "raised"
          /\ i < Len(batches)
          /\ Len(map_calls) = i
          /\ map_calls[i].batch = i
          /\ observed # <<>>
          /\ observed[Len(observed)].raised
          /\ observed[Len(observed)].future \in SubmittedBy(i)
    /\ (ks0.kind = "CountSwitch" /\ FreshSwitch /\ Len(map_calls) >= 2) =>
          FailedInBatches(1) < ks0.max_count

C2_Witness ==
    /\ error.type = "KillSwitchError"
    /\ ks0 = CountSwitch(2)
    /\ size = 2
    /\ Len(batches) = 2
    /\ get_state(1) = "Failed"
    /\ get_state(2) = "Failed"
    /\ Len(map_calls) = 1

\* The arguments of the k-th item of the call
ItemArgs(k) ==
    [p \in DOMAIN params |->
        IF is_unmapped(params[p]) THEN params[p].value
        ELSE params[p].items[k]]

\* C3: when no abort occurs, map returns exactly one future per mapped
\* item, in argument order: the k-th future is the run of the k-th elements
\* of the sequences (unmapped values reused), for every length L >= 0.
C3_ResultsInOrder ==
    pc = "returned" =>
       /\ Len(results) = CallLength
       /\ \A k \in 1..Len(results) :
             /\ results[k] \in DOMAIN runs
             /\ runs[results[k]].args = ItemArgs(k)
       /\ \A k, l \in 1..Len(results) : results[k] = results[l] => k = l

C3_Witness ==
    /\ pc = "returned"
    /\ size = 2
    /\ params = [a |-> Unmapped(1), b |-> List(<<2, 3, 4>>)]
    /\ Len(results) = 3
    /\ runs[results[3]].args = [a |-> 1, b |-> 4]

\* C7: the kill switch's counters are cumulative over the dispatch and not
\* reset between batches: CountSwitch's count is its count at the start of
\* the call plus the failures handed to it since; with a new CountSwitch(n)
\* failures of different non-final batches add up, and KillSwitchError is
\* raised while the first non-final batch that brings the number of
\* Failed/Crashed outcomes to n is evaluated.
C7_CumulativeCount ==
    (InCall /\ kill_switch.kind = "CountSwitch") =>
       /\ kill_switch.current_count =
             ks0.current_count + NumFailures(ObservedStates, Len(observed))
       /\ FreshSwitch =>
             /\ \A n \in 1..(Len(map_calls) - 1) :
                   FailedInBatches(n) < kill_switch.max_count
             /\ error.type = "KillSwitchError" =>
                   /\ FailedInBatches(i) >= kill_switch.max_count
                   /\ FailedInBatches(i - 1) < kill_switch.max_count
             /\ (pc \in {"last", "returned"}) =>
                   FailedInBatches(Len(batches) - 1) < kill_switch.max_count

C7_Witness ==
    /\ error.type = "KillSwitchError"
    /\ ks0 = CountSwitch(2)
    /\ size = 1
    /\ Len(batches) = 3
    /\ i = 2
    /\ get_state(1) = "Failed"
    /\ get_state(2) = "Crashed"

\* The switch with its counters as its constructor sets them
Fresh(ks) == [ks EXCEPT !.current_count = 0, !.failed_count = 0]

\* What should_flip_switch returns for the last state of seq when ks is
\* fed seq, one state after another
RECURSIVE LastFlip(_, _)
LastFlip(ks, seq) ==
    IF seq = <<>> THEN FALSE
    ELSE LET r == should_flip_switch(ks, Head(seq))
         IN  IF Len(seq) = 1 THEN r.flip ELSE LastFlip(r.ks, Tail(seq))

\* C8: each map call starts from fresh counters: the kill switch's decisions
\* in a call are those of a new switch fed this call's outcomes only.
C8_CallsStartFresh ==
    HasKillSwitch =>
       \A m \in 1..Len(observed) :
          observed[m].raised =
             LastFlip(Fresh(kill_switch), SubSeq(ObservedStates, 1, m))

\* C9: the final batch is mapped without polling and without the kill
\* switch: no outcome of a final-batch item is handed to the switch, a
\* single-batch dispatch never raises KillSwitchError, failures in the final
\* batch alone never do, and the final Task.map needs no run to be terminal.
C9_FinalBatchUnchecked ==
    /\ \A m \in 1..Len(observed) : observed[m].future \notin FinalFutures
    /\ (InCall /\ Len(batches) <= 1) =>
          /\ observed = <<>>
          /\ error.type # "KillSwitchError"
    /\ error.type = "KillSwitchError" => FinalFutures = {}
    /\ (FreshSwitch /\ \A f \in DOMAIN runs :
                          IsFailure(get_state(f)) => f \in FinalFutures)
          => error.type # "KillSwitchError"
    /\ pc = "last" => ENABLED Last

C9_Witness ==
    /\ pc = "returned"
    /\ kill_switch.kind = "AnyFailedSwitch"
    /\ size = 2
    /\ Len(batches) = 2
    /\ FinalFutures = {3}
    /\ get_state(3) = "Failed"
    /\ Len(observed) = 2

---------------------------------------------------------------------------
(* Properties of the kill switches (SwitchSpec), continued *)

\* C11: RateSwitch.should_flip_switch returns true iff, the current state
\* included, the number of states seen is >= min_sample and
\* failed/seen >= max_fail_rate; fewer than min_sample states never
\* trigger, even when all fail; RateSwitch(3, 0.5) does not trigger on
\* [Completed, Failed] and triggers on the 3rd state of
\* [Completed, Failed, Crashed].
C11_RateSwitch ==
    (pc = "switch" /\ kill_switch.kind = "RateSwitch") =>
       /\ Len(flips) = Len(fed)
       /\ \A k \in 1..Len(fed) :
             /\ flips[k] <=>
                   /\ k >= kill_switch.min_sample
                   /\ NumFailures(fed, k) * kill_switch.rate_den
                         >= kill_switch.rate_num * k
             /\ k < kill_switch.min_sample => ~flips[k]
       /\ (/\ ks0 = RateSwitch(3, 1, 2)
           /\ Len(fed) >= 3
           /\ SubSeq(fed, 1, 3) = <<"Completed", "Failed", "Crashed">>)
          => SubSeq(flips, 1, 3) = <<FALSE, FALSE, TRUE>>

C11_Witness ==
    /\ pc = "switch"
    /\ ks0 = RateSwitch(3, 1, 2)
    /\ fed = <<"Completed", "Failed", "Crashed">>
    /\ flips = <<FALSE, FALSE, TRUE>>
    /\ kill_switch.current_count = 3
    /\ kill_switch.failed_count = 2

\* C12: AnyFailedSwitch.should_flip_switch returns true exactly for a
\* Failed or Crashed state, false for Completed, Cancelled and non-terminal
\* states, whatever the earlier calls were; the switch keeps no state.
C12_AnyFailedSwitch ==
    (pc = "switch" /\ kill_switch.kind = "AnyFailedSwitch") =>
       /\ Len(flips) = Len(fed)
       /\ \A k \in 1..Len(fed) : flips[k] <=> fed[k] \in {"Failed", "Crashed"}
       /\ kill_switch = ks0

C12_Witness ==
    /\ pc = "switch"
    /\ kill_switch.kind = "AnyFailedSwitch"
    /\ fed = <<"Crashed", "Completed", "Running", "Failed">>
    /\ flips = <<TRUE, FALSE, FALSE, TRUE>>

\* C13 as stated: for each of the three switches, once should_flip_switch
\* has returned true every later call returns true.
C13_TriggerIsPermanent ==
    pc = "switch" =>
       \A k, l \in 1..Len(flips) : (k < l /\ flips[k]) => flips[l]

\* C13 as amended: for CountSwitch, once should_flip_switch has returned
\* true every later call returns true; for AnyFailedSwitch and RateSwitch
\* every later call returns true as long as only Failed or Crashed states
\* follow (a later state that is neither can make them return false).
C13_TriggerPermanence ==
    pc = "switch" =>
       \A k, l \in 1..Len(flips) :
          (k < l /\ flips[k]) =>
             \/ flips[l]
             \/ /\ kill_switch.kind # "CountSwitch"
                /\ \E m \in (k + 1)..l : ~IsFailure(fed[m])

C13_Witness ==
    /\ pc = "switch"
    /\ ks0 = CountSwitch(1)
    /\ fed = <<"Failed", "Completed", "Pending", "Crashed">>
    /\ flips = <<TRUE, TRUE, TRUE, TRUE>>

---------------------------------------------------------------------------
(* Properties of BatchTask.map (Spec), continued *)

\* The switch ks after should_flip_switch was called once for each state
\* of seq, in order
RECURSIVE SwitchAfter(_, _)
SwitchAfter(ks, seq) ==
    IF seq = <<>> THEN ks
    ELSE SwitchAfter(should_flip_switch(ks, Head(seq)).ks, Tail(seq))

\* C14: raise_if_triggered(state) calls should_flip_switch(state) exactly
\* once, so the counters advance by that one state even when it raises; it
\* raises KillSwitchError iff that call returned true; the error's ks is the
\* switch that triggered, which in BatchTask.map is the BatchTask's switch.
C14_RaiseIfTriggered ==
    /\ ~HasKillSwitch => error.type # "KillSwitchError"
    /\ HasKillSwitch =>
          /\ kill_switch = SwitchAfter(ks0, ObservedStates)
          /\ \A m \in 1..Len(observed) :
                observed[m].raised
                   <=> LastFlip(ks0, SubSeq(ObservedStates, 1, m))
          /\ error.type = "KillSwitchError"
                <=> (observed # <<>> /\ observed[Len(observed)].raised)
          /\ error.type = "KillSwitchError" =>
                /\ pc = "raised"
                /\ error.ks = kill_switch
                /\ error.ks.kind = ks0.kind

C14_Witness ==
    /\ error.type = "KillSwitchError"
    /\ ks0 = RateSwitch(2, 1, 2)
    /\ ObservedStates = <<"Completed", "Crashed">>
    /\ error.ks.current_count = 2
    /\ error.ks.failed_count = 1

\* The futures of the non-final batches mapped so far, in batch order and,
\* inside a batch, in the order Task.map returned them
NonFinalFutures ==
    Concat([n \in 1..Len(map_calls) |->
               IF map_calls[n].batch < Len(batches)
               THEN map_calls[n].futures ELSE <<>>])

\* C15: over one map call the outcomes passed to the kill switch are a
\* prefix of the outcomes of the non-final batches, in batch order and in
\* submission order inside a batch; each future's outcome is passed at most
\* once, and nothing is passed after the first outcome that triggers.
C15_OutcomesInOrder ==
    /\ Len(observed) <= Len(NonFinalFutures)
    /\ \A m \in 1..Len(observed) :
          /\ observed[m].future = NonFinalFutures[m]
          /\ observed[m].state = get_state(observed[m].future)
    /\ \A m, n \in 1..Len(observed) :
          observed[m].future = observed[n].future => m = n
    /\ \A m \in 1..(Len(observed) - 1) :
          ~LastFlip(ks0, SubSeq(ObservedStates, 1, m))

C15_Witness ==
    /\ pc = "raised"
    /\ ks0 = CountSwitch(2)
    /\ size = 2
    /\ Len(batches) = 2
    /\ ObservedStates = <<"Failed", "Crashed">>
    /\ observed[1].future = 1
    /\ observed[2].future = 2

\* Every task run submitted by this map call is in a terminal state
AllRunsTerminal == \A f \in DOMAIN runs : is_terminal(get_state(f))

\* C16: whenever _map invokes the kill switch every work item submitted so
\* far, of the current and of all earlier batches, is terminal; every state
\* handed to the switch is terminal; and the switch's counters change only
\* in that step of the control thread, with no submitted item still active.
C16_SwitchAfterDrain ==
    /\ [](/\ pc = "check" => AllRunsTerminal
          /\ \A m \in 1..Len(observed) : observed[m].state \in TerminalStates)
    /\ [][kill_switch' # kill_switch =>
             (pc = "check" /\ AllRunsTerminal /\ runs' = runs)]_vars

C16_Witness ==
    /\ pc = "check"
    /\ size = 1
    /\ i = 2
    /\ Len(runs) = 2
    /\ get_state(1) = "Completed"
    /\ get_state(2) = "Cancelled"
    /\ kill_switch.current_count = 1

\* The arguments _make_batches rejects: no parameter, a parameter that is
\* not iterable, no non-unmapped parameter, or two lists of different length
Malformed(ps) ==
    \/ DOMAIN ps = {}
    \/ \E p \in DOMAIN ps : ps[p].kind = "scalar"
    \/ \A p \in DOMAIN ps : ps[p].kind = "unmapped"
    \/ \E p, q \in DOMAIN ps :
          /\ ps[p].kind = "list"
          /\ ps[q].kind = "list"
          /\ Len(ps[p].items) # Len(ps[q].items)

\* C17: every ValueError of the partitioning (no parameter, non-iterable
\* entry, no non-unmapped list, length mismatch) is raised by map before
\* any batch is submitted: on a malformed call Task.map is never called and
\* the kill switch is never advanced.
C17_ErrorsBeforeSubmission ==
    /\ (InCall /\ Malformed(params)) => error.type = "ValueError"
    /\ error.type = "ValueError" =>
          /\ Malformed(params)
          /\ pc = "raised"
          /\ batches = <<>>
          /\ map_calls = <<>>
          /\ runs = <<>>
          /\ results = <<>>
          /\ observed = <<>>
          /\ kill_switch = ks0

C17_Witness ==
    /\ pc = "raised"
    /\ calls = 2
    /\ error.type = "ValueError"
    /\ error.text = "Expected all iterables to be of length."
    /\ Len(params["a"].items) = 2
    /\ Len(params["b"].items) = 1
    /\ kill_switch.kind = "CountSwitch"
    /\ kill_switch.current_count = 1

\* C18: when the non-unmapped lists are empty, _make_batches returns no
\* batch and map returns an empty result list without calling Task.map and
\* without evaluating the kill switch.
C18_EmptyInput ==
    (InCall /\ ~Malformed(params) /\ CallLength = 0) =>
       /\ error.type = "None"
       /\ batches = <<>>
       /\ pc = "returned"
       /\ results = <<>>
       /\ map_calls = <<>>
       /\ runs = <<>>
       /\ observed = <<>>
       /\ kill_switch = ks0

C18_Witness ==
    /\ pc = "returned"
    /\ calls = 1
    /\ HasKillSwitch
    /\ params["a"] = Unmapped(1)
    /\ params["b"] = List(<<>>)
    /\ results = <<>>

---------------------------------------------------------------------------
(* Properties of _make_batches (BatchesSpec), continued *)

\* C19: _make_batches raises ValueError when every parameter is an unmapped
\* value and none is a list, for any number of such parameters, and
\* produces no batch.
C19_OnlyUnmapped ==
    (/\ pc # "make"
     /\ DOMAIN params # {}
     /\ \A p \in DOMAIN params : is_unmapped(params[p])) =>
       /\ pc = "raised"
       /\ error.type = "ValueError"
       /\ error.text = "Must provide at least one non-unmapped iterable."
       /\ batches = <<>>

C19_Witness ==
    /\ pc = "raised"
    /\ DOMAIN params = {"a", "b", "c"}
    /\ \A p \in DOMAIN params : is_unmapped(params[p])
    /\ error.type = "ValueError"

\* Two list parameters of the call have different lengths
UnequalLists ==
    \E p, q \in ListParams : len(params[p]) # len(params[q])

\* C20: _make_batches raises ValueError whenever two lists have different
\* lengths, whatever the parameters' names and wherever unmapped parameters
\* sort between them; it never returns batches built from lists of unequal
\* length.
C20_LengthMismatch ==
    /\ (pc # "make" /\ UnequalLists) =>
          /\ pc = "raised"
          /\ error.type = "ValueError"
          /\ batches = <<>>
          /\ (\A p \in DOMAIN params : has_iter(params[p])) =>
                /\ error.text = "Expected all iterables to be of length."
                /\ error.length = len(params[error.ref])
                /\ error.klen = len(params[error.key])
                /\ error.klen # error.length
    /\ pc = "made" =>
          /\ ~UnequalLists
          /\ \A n \in 1..Len(batches) : \A p, q \in ListParams :
                len(batches[n][p]) = len(batches[n][q])

C20_Witness ==
    /\ pc = "raised"
    /\ DOMAIN params = {"a", "b", "c"}
    /\ params["a"].kind = "list"
    /\ is_unmapped(params["b"])
    /\ params["c"].kind = "list"
    /\ error.type = "ValueError"
    /\ error.ref = "a"
    /\ error.key = "c"
    /\ error.length = 2
    /\ error.klen = 3

---------------------------------------------------------------------------
(* Properties of _make_batches (BatchesSpec), third part *)

\* The parameters of the call whose value has no __iter__
NotIterable == {p \in DOMAIN params : params[p].kind = "scalar"}

\* C21: _make_batches raises ValueError when called with no parameters, and
\* raises ValueError (naming the first such parameter in sorted order) when
\* a parameter value is not iterable; no batch is produced.
C21_EmptyOrNotIterable ==
    /\ (pc # "make" /\ DOMAIN params = {}) =>
          /\ pc = "raised"
          /\ error.type = "ValueError"
          /\ error.text = "Must provide at least one iterable."
          /\ batches = <<>>
    /\ (pc # "make" /\ NotIterable # {}) =>
          /\ pc = "raised"
          /\ error.type = "ValueError"
          /\ error.text = "Expected to be an iterable."
          /\ error.key \in NotIterable
          /\ \A n \in 1..Len(ParamNames) :
                ParamNames[n] = error.key =>
                   \A m \in 1..(n - 1) : ParamNames[m] \notin NotIterable
          /\ batches = <<>>

C21_Witness ==
    /\ pc = "raised"
    /\ DOMAIN params = {"a", "b", "c"}
    /\ is_unmapped(params["a"])
    /\ params["b"] = Scalar(1)
    /\ params["c"] = List(<<1, 2>>)
    /\ error.type = "ValueError"
    /\ error.key = "b"

---------------------------------------------------------------------------
(* ConstructSpec: BatchTask.__init__ followed by the map calls of Spec.    *)
(* Before Construct, kill_switch holds the constructor's argument.         *)

\* A kill_switch argument that is no KillSwitch instance (a string, say)
NotAKillSwitch == [NoSwitch EXCEPT !.kind = "str"]

\* TypeError("Expected 'kill_switch' to be a subclass of 'KillSwitch', ...")
TypeError == [NoError EXCEPT !.type = "TypeError"]

\* isinstance(kill_switch, KillSwitch)
isinstance_KillSwitch(ks) ==
    ks.kind \in {"AnyFailedSwitch", "CountSwitch", "RateSwitch"}

\* Variant: None is rejected as well
M_init_raises_OnNone(ks) == ~isinstance_KillSwitch(ks)

\* if kill_switch is not None and not isinstance(kill_switch, KillSwitch)
init_raises(ks) == ks.kind # "None" /\ ~isinstance_KillSwitch(ks)

ConstructInit ==
    /\ size \in 1..MaxSize
    /\ kill_switch \in KillSwitches \cup {NotAKillSwitch}
    /\ calls = 0
    /\ pc = "new"
    /\ params = NoParams
    /\ batches = <<>>
    /\ error = NoError
    /\ i = 0
    /\ j = 0
    /\ futures = <<>>
    /\ runs = <<>>
    /\ results = <<>>
    /\ map_calls = <<>>
    /\ observed = <<>>
    /\ ks0 = kill_switch
    /\ fed = <<>>
    /\ flips = <<>>
    /\ OtherModulesInit

\* BatchTask.__init__(task, size, kill_switch): when it raises there is no
\* BatchTask to call map on
Construct ==
    /\ pc = "new"
    /\ IF init_raises(kill_switch)
       THEN pc' = "no_instance" /\ error' = TypeError
       ELSE pc' = "idle" /\ error' = error
    /\ UNCHANGED <<size, kill_switch, calls, params, batches, i, j, futures,
                   runs, results, map_calls, observed, ks0, fed, flips,
                   other_modules>>

ConstructNext == Construct \/ Next

ConstructSpec == ConstructInit /\ [][ConstructNext]_vars

\* C22: constructing a BatchTask with a kill_switch that is neither None
\* nor a KillSwitch instance raises TypeError in the constructor, so no
\* dispatch takes place with it; None and an instance of a KillSwitch
\* subclass are accepted.
C22_ConstructorTypeCheck ==
    pc # "new" =>
       /\ kill_switch.kind \in {"None", "AnyFailedSwitch", "CountSwitch",
                                "RateSwitch"}
             => (pc # "no_instance" /\ error.type # "TypeError")
       /\ kill_switch.kind \notin {"None", "AnyFailedSwitch", "CountSwitch",
                                   "RateSwitch"}
             => /\ pc = "no_instance"
                /\ error.type = "TypeError"
                /\ calls = 0
                /\ map_calls = <<>>
                /\ runs = <<>>
                /\ observed = <<>>

C22_Witness ==
    /\ pc = "no_instance"
    /\ kill_switch = NotAKillSwitch
    /\ error.type = "TypeError"
    /\ calls = 0

---------------------------------------------------------------------------
(* Properties of BatchTask.map (Spec), third part *)

\* Some future of the batch being polled has not reached a terminal state
BatchActive == \E k \in 1..Len(futures) : ~is_terminal(get_state(futures[k]))

\* C23: while an item of a non-final batch has not reached a terminal state
\* map stays in the poll loop of that batch: it does not return, does not
\* raise and submits no later batch, for as long as the item stays active;
\* a call that has left a batch's poll loop has no active item in it.
C23_StuckItemHangs ==
    /\ [][(pc = "poll" /\ BatchActive) =>
             /\ pc' = "poll"
             /\ i' = i
             /\ map_calls' = map_calls
             /\ results' = results
             /\ error' = error
             /\ observed' = observed
             /\ kill_switch' = kill_switch
             /\ calls' = calls]_vars
    /\ [](pc \in {"check", "submit", "last", "returned", "raised"} =>
             \A k \in 1..Len(NonFinalFutures) :
                 is_terminal(get_state(NonFinalFutures[k])))

C23_Witness ==
    /\ pc = "poll"
    /\ size = 2
    /\ Len(batches) = 2
    /\ Len(map_calls) = 1
    /\ get_state(1) = "Failed"
    /\ get_state(2) = "Running"
    /\ BatchActive

\* C24: raising KillSwitchError from map does not cancel or change any
\* already-submitted work item: the raising step leaves every task run as
\* it is, the outcomes the switch saw are still the runs' states, and the
\* abort only keeps the later batches from being submitted.
C24_AbortLeavesRuns ==
    /\ [][(pc # "raised" /\ pc' = "raised"
              /\ error'.type = "KillSwitchError") =>
             /\ runs' = runs
             /\ results' = results
             /\ map_calls' = map_calls]_vars
    /\ [][(pc = "raised" /\ error.type = "KillSwitchError"
              /\ calls' = calls) =>
             /\ runs' = runs
             /\ map_calls' = map_calls]_vars
    /\ [](error.type = "KillSwitchError" =>
             /\ Len(map_calls) = i
             /\ i < Len(batches)
             /\ \A m \in 1..Len(observed) :
                   get_state(observed[m].future) = observed[m].state)

C24_Witness ==
    /\ pc = "raised"
    /\ error.type = "KillSwitchError"
    /\ kill_switch.kind = "AnyFailedSwitch"
    /\ size = 2
    /\ Len(batches) = 2
    /\ Len(map_calls) = 1
    /\ get_state(1) = "Completed"
    /\ get_state(2) = "Crashed"

\* The batches of lists and unmapped values ps for batch size sz, written
\* out from the inputs alone
ExpectedBatches(sz, ps) ==
    LET lists == {p \in DOMAIN ps : ps[p].kind = "list"}
        L == Len(ps[CHOOSE p \in lists : TRUE].items)
    IN  [n \in 1..Ceil(L, sz) |->
            [p \in DOMAIN ps |->
                IF ps[p].kind = "list"
                THEN List(Elements(ps[p].items, (n - 1) * sz, Min(n * sz, L)))
                ELSE ps[p]]]

\* C25: _make_batches is pure: the call's inputs (lists and unmapped values)
\* and the BatchTask (size, kill switch) are as they were before it, and
\* its result depends on size and the inputs only: whichever call it is and
\* whatever the kill switch has counted, equal inputs give equal batches.
C25_MakeBatchesPure ==
    /\ [][calls' = calls + 1 =>
             /\ kill_switch' = kill_switch
             /\ size' = size
             /\ params' \in DispatchParams]_vars
    /\ [][calls' = calls =>
             /\ params' = params
             /\ batches' = batches
             /\ size' = size]_vars
    /\ []((InCall /\ error.type # "ValueError") =>
             batches = ExpectedBatches(size, params))

C25_Witness ==
    /\ calls = 2
    /\ ks0.kind = "CountSwitch"
    /\ ks0.current_count = 1
    /\ size = 2
    /\ params = [a |-> List(<<1, 2, 3>>), b |-> List(<<2, 3, 4>>)]
    /\ batches = <<[a |-> List(<<1, 2>>), b |-> List(<<2, 3>>)],
                   [a |-> List(<<3>>), b |-> List(<<4>>)]>>

---------------------------------------------------------------------------
(* Properties of _make_batches (BatchesSpec), fourth part *)

\* C26: in every batch _make_batches returns, all list entries have the
\* same length, that length is between 1 and size, every batch but possibly
\* the last has length exactly size, and the batch has exactly the
\* parameter names of the call.
C26_BatchShape ==
    pc = "made" =>
       \A n \in 1..Len(batches) :
          /\ DOMAIN batches[n] = DOMAIN params
          /\ \A p \in DOMAIN params :
                batches[n][p].kind = params[p].kind
          /\ \A p, q \in ListParams :
                Len(batches[n][p].items) = Len(batches[n][q].items)
          /\ \A p \in ListParams :
                /\ Len(batches[n][p].items) >= 1
                /\ Len(batches[n][p].items) <= size
                /\ n < Len(batches) => Len(batches[n][p].items) = size

C26_Witness ==
    /\ pc = "made"
    /\ size = 2
    /\ DOMAIN params = {"a", "b", "c"}
    /\ is_unmapped(params["b"])
    /\ Len(batches) = 3
    /\ Len(batches[2]["a"].items) = 2
    /\ Len(batches[3]["a"].items) = 1
    /\ Len(batches[3]["c"].items) = 1

---------------------------------------------------------------------------
(* Properties of BatchTask.map (Spec), fourth part *)

\* C27: when map with a freshly created CountSwitch(n), n >= 1, raises
\* KillSwitchError, the error's ks is that CountSwitch and its failed count
\* is exactly n: the evaluation stops at the outcome that reaches the
\* threshold and later outcomes of the same batch are not counted.
C27_CountAtRaise ==
    (/\ error.type = "KillSwitchError"
     /\ ks0.kind = "CountSwitch"
     /\ ks0.max_count >= 1
     /\ FreshSwitch) =>
       /\ Fresh(error.ks) = ks0
       /\ error.ks.current_count = ks0.max_count
       /\ kill_switch = error.ks
       /\ NumFailures(ObservedStates, Len(observed)) = ks0.max_count
       /\ IsFailure(ObservedStates[Len(observed)])
       /\ NumFailures(ObservedStates, Len(observed) - 1) = ks0.max_count - 1

C27_Witness ==
    /\ pc = "raised"
    /\ error.type = "KillSwitchError"
    /\ ks0 = CountSwitch(1)
    /\ size = 2
    /\ Len(batches) = 2
    /\ ObservedStates = <<"Crashed">>
    /\ get_state(2) = "Failed"
    /\ error.ks.current_count = 1

---------------------------------------------------------------------------
(* LazySpec: one instance of a class with two properties decorated with    *)
(* lazy_load, accessed one access after another                            *)

\* The decorated properties of the class (func.__name__)
Properties == {"password", "bucket"}

\* What block_type.load(name) comes to: the block, a coroutine that gives the
\* block when run in the loop thread, or an exception
LoadOutcomes == {"block", "coroutine", "raised"}

\* The Block object the n-th load_block call creates, n >= 1; Block.load
\* builds a new object at every call
Block(n) == [id |-> n]

\* Variant: the stored block is ignored, every access loads
M_not_block_Always(b) == TRUE

\* not block, for None or a Block instance (which is truthy)
not_block(b) == b = NoBlock

\* getattr(self, block_varname, None)
getattr_block(attrs, p) == IF p \in DOMAIN attrs THEN attrs[p] ELSE NoBlock

\* setattr(self, block_varname, b)
setattr_block(attrs, p, b) ==
    [q \in DOMAIN attrs \cup {p} |-> IF q = p THEN b ELSE attrs[q]]

LazyInit ==
    /\ pc = "lazy"
    /\ DispatchIdle
    /\ OtherModulesInit

\* One access of property p: lazy_property(self); outcome is what
\* load_block comes to if it is called
lazy_property(p, outcome) ==
    /\ pc = "lazy"
    /\ Len(accesses) < MaxAccesses
    /\ LET b == getattr_block(block, p)
           n == Len(accesses) + 1
       IN  IF not_block(b)
           THEN IF outcome = "raised"
                THEN /\ load_calls' = Append(load_calls,
                            [property |-> p, access |-> n, how |-> outcome,
                             block |-> NoBlock])
                     /\ accesses' = Append(accesses,
                            [property |-> p, returned |-> FALSE,
                             block |-> NoBlock])
                     /\ block' = block
                ELSE LET new == Block(Len(load_calls) + 1)
                     IN  /\ load_calls' = Append(load_calls,
                                [property |-> p, access |-> n,
                                 how |-> outcome, block |-> new])
                         /\ accesses' = Append(accesses,
                                [property |-> p, returned |-> TRUE,
                                 block |-> new])
                         /\ block' = setattr_block(block, p, new)
           ELSE /\ accesses' = Append(accesses,
                       [property |-> p, returned |-> TRUE, block |-> b])
                /\ UNCHANGED <<block, load_calls>>
    /\ UNCHANGED <<pc, dispatch_vars, serializers_vars, s3_vars>>

LazyNext ==
    \E p \in Properties : \E outcome \in LoadOutcomes :
        lazy_property(p, outcome)

LazySpec == LazyInit /\ [][LazyNext]_vars

\* The accesses of property p so far (their positions in accesses), and the
\* load_block calls made for it
AccessesOf(p) == {n \in 1..Len(accesses) : accesses[n].property = p}
LoadsOf(p) == {m \in 1..Len(load_calls) : load_calls[m].property = p}

\* C28: a property decorated with lazy_load loads its block on first access
\* only: over any sequence of accesses of the property on one instance,
\* load_block is called exactly once, at the first access, and every access
\* returns the block loaded then. (A load_block call that raised left no
\* block: the accesses counted are those after which a block was loaded
\* without an exception.)
C28_LoadedOnce ==
    pc = "lazy" =>
       \A p \in Properties :
          /\ \A m1, m2 \in LoadsOf(p) :
                (load_calls[m1].how # "raised" /\ m1 # m2) =>
                   (m2 < m1 /\ load_calls[m2].how = "raised")
          /\ \A m \in LoadsOf(p) : \A n \in AccessesOf(p) :
                (load_calls[m].how # "raised"
                    /\ n >= load_calls[m].access) =>
                   /\ accesses[n].returned
                   /\ accesses[n].block = load_calls[m].block
          /\ (/\ AccessesOf(p) # {}
              /\ \A m \in LoadsOf(p) : load_calls[m].how # "raised") =>
                /\ Cardinality(LoadsOf(p)) = 1
                /\ \A m \in LoadsOf(p) : \A n \in AccessesOf(p) :
                      /\ load_calls[m].access <= n
                      /\ accesses[n].returned
                      /\ accesses[n].block = load_calls[m].block
                      /\ block[p] = load_calls[m].block

C28_Witness ==
    /\ pc = "lazy"
    /\ Len(accesses) = 4
    /\ AccessesOf("password") = {1, 3, 4}
    /\ Len(load_calls) = 2
    /\ load_calls[1] = [property |-> "password", access |-> 1,
                        how |-> "block", block |-> Block(1)]
    /\ accesses[4].block = Block(1)

---------------------------------------------------------------------------
(* RegistrySpec: class statements with base Method, one after another;     *)
(* MethodMeta.__new__ runs for each                                        *)

\* "discriminator" not in attrs
Missing == "<missing>"

Discriminators == {"utf8", "latin1"}

\* The class bodies: attrs of MethodMeta.__new__(mcs, name, bases, attrs)
ClassBodies ==
    [discriminator : Discriminators \cup {Missing},
     has_read : BOOLEAN,
     has_write : BOOLEAN]

\* assert ..., message
AssertionError(text) == [type |-> "AssertionError", text |-> text]
NoAssertionError == [type |-> "None", text |-> ""]

\* Variant: the registry is not looked up
M_in_registry_Never(reg, d) == FALSE

\* attrs["discriminator"] in __registry__
in_registry(reg, d) == d \in DOMAIN reg

\* MethodMeta.__new__ for a class with bases; id is the class object it
\* would create: [error, registry, cls], cls = 0 when it raises
MethodMeta_new(reg, attrs, id) ==
    IF attrs.discriminator = Missing
    THEN [error |-> AssertionError("Must define a discriminator."),
          registry |-> reg, cls |-> 0]
    ELSE IF in_registry(reg, attrs.discriminator)
    THEN [error |-> AssertionError("Duplicate method discriminator"),
          registry |-> reg, cls |-> 0]
    ELSE IF ~attrs.has_read
    THEN [error |-> AssertionError("Must define a read function."),
          registry |-> reg, cls |-> 0]
    ELSE IF ~attrs.has_write
    THEN [error |-> AssertionError("Must define a write function."),
          registry |-> reg, cls |-> 0]
    ELSE [error |-> NoAssertionError,
          registry |-> [d \in DOMAIN reg \cup {attrs.discriminator} |->
                           IF d = attrs.discriminator THEN id ELSE reg[d]],
          cls |-> id]

\* get_method(discriminator): __registry__[discriminator], or KeyError
get_method(reg, d) ==
    IF d \in DOMAIN reg THEN [error |-> "None", method |-> reg[d]]
    ELSE [error |-> "KeyError", method |-> 0]

RegistryInit ==
    /\ pc = "registry"
    /\ DispatchIdle
    /\ OtherModulesInit

\* class <name>(Method): <attrs>
DefineMethod(attrs) ==
    /\ pc = "registry"
    /\ Len(defined) < MaxClasses
    /\ LET r == MethodMeta_new(registry, attrs, Len(defined) + 1)
       IN  /\ registry' = r.registry
           /\ defined' = Append(defined, [attrs |-> attrs, error |-> r.error,
                                          cls |-> r.cls])
    /\ UNCHANGED <<pc, dispatch_vars, blocks_vars, s3_vars>>

RegistryNext == \E attrs \in ClassBodies : DefineMethod(attrs)

RegistrySpec == RegistryInit /\ [][RegistryNext]_vars

\* The n-th class statement created its class
Created(n) == defined[n].error.type = "None"

\* The discriminator was registered before the n-th class statement
RegisteredBefore(d, n) ==
    \E m \in 1..(n - 1) : Created(m) /\ defined[m].attrs.discriminator = d

---------------------------------------------------------------------------
(* BucketSpec: with mock_bucket(bucket_name, export_path, keys, processes) *)
(* as bucket: put_object calls; then the finally clause of mock_bucket     *)

Keys == {"test-key-1", "subfolder/test-key-2"}

\* The arguments of mock_bucket
MockArgs ==
    {[bucket_name |-> "test-bucket", export_path |-> e, keys_given |-> g,
      keys |-> k, processes |-> n] :
        e \in {None, "tempdir"}, g \in BOOLEAN, k \in SUBSET Keys,
        n \in 1..MaxProcesses}
    \ {a \in [bucket_name : {"test-bucket"}, export_path : {None, "tempdir"},
              keys_given : {FALSE}, keys : SUBSET Keys,
              processes : 1..MaxProcesses] : a.keys # {}}

\* path / obj.key under Path(export_path) / bucket.name
KeyPath(args, k) == <<args.export_path, args.bucket_name, k>>

\* objects: bucket.objects.all(), or bucket.Object(key) for key in keys
ExportObjects(args, objs) ==
    IF args.keys_given THEN args.keys ELSE DOMAIN objs

BucketInit ==
    /\ pc = "entered"
    /\ mock_args \in MockArgs
    /\ objects = NoObjects
    /\ files = NoFiles
    /\ pending = {}
    /\ block = [p \in {} |-> NoBlock]
    /\ load_calls = <<>>
    /\ accesses = <<>>
    /\ registry = EmptyRegistry
    /\ defined = <<>>
    /\ DispatchIdle

\* bucket.put_object(Key=k, Body=b"test value") in the with body
PutObject(k) ==
    /\ pc = "entered"
    /\ k \notin DOMAIN objects
    /\ objects' = [o \in DOMAIN objects \cup {k} |-> "test value"]
    /\ UNCHANGED <<pc, mock_args, files, pending, dispatch_vars, blocks_vars,
                   serializers_vars>>

\* The finally clause up to the export: with processes > 1 the objects go to
\* a ThreadPool; otherwise map(_export, ...) builds an iterator that nothing
\* consumes, so _export is not called
ExitContext ==
    /\ pc = "entered"
    /\ IF mock_args.export_path = None
       THEN pc' = "exited" /\ pending' = pending
       ELSE IF mock_args.processes > 1
       THEN pc' = "exporting"
            /\ pending' = ExportObjects(mock_args, objects)
       ELSE pc' = "exited" /\ pending' = pending
    /\ UNCHANGED <<mock_args, objects, files, dispatch_vars, blocks_vars,
                   serializers_vars>>

\* _export(obj, bucket_path) in a pool thread: open(key_path, "wb") creates
\* the file, obj.get() of an object that is not in the bucket then raises
\* and leaves it empty
Export(k) ==
    /\ pc = "exporting"
    /\ k \in pending
    /\ pending' = pending \ {k}
    /\ files' = [f \in DOMAIN files \cup {KeyPath(mock_args, k)} |->
                    IF f = KeyPath(mock_args, k)
                    THEN IF k \in DOMAIN objects THEN objects[k] ELSE ""
                    ELSE files[f]]
    /\ UNCHANGED <<pc, mock_args, objects, dispatch_vars, blocks_vars,
                   serializers_vars>>

\* pool.starmap returns, or raises what an _export call raised
PoolDone ==
    /\ pc = "exporting"
    /\ pending = {}
    /\ pc' = IF ExportObjects(mock_args, objects) \subseteq DOMAIN objects
             THEN "exited" ELSE "raised"
    /\ UNCHANGED <<mock_args, objects, files, pending, dispatch_vars,
                   blocks_vars, serializers_vars>>

BucketNext ==
    \/ \E k \in Keys : PutObject(k)
    \/ ExitContext
    \/ \E k \in Keys : Export(k)
    \/ PoolDone

BucketSpec == BucketInit /\ [][BucketNext]_vars

\* C30: on exit of the mock_bucket context with export_path given, every
\* object of the bucket (or, when keys is given, exactly the objects named
\* in keys) has been written to export_path/<bucket name>/<key>, for every
\* processes >= 1; with export_path None nothing is exported.
C30_ExportOnExit ==
    (/\ pc = "exited"
     /\ ExportObjects(mock_args, objects) \subseteq DOMAIN objects) =>
       IF mock_args.export_path = None
       THEN files = NoFiles
       ELSE files = [f \in {KeyPath(mock_args, k) :
                               k \in ExportObjects(mock_args, objects)} |->
                        "test value"]

---------------------------------------------------------------------------
(* Properties of _make_batches (BatchesSpec), fifth part *)

\* The call of the docstring example:
\* BatchTask(task, 3)._make_batches(a=[1,2,3,4,5], b=[2,3,4,5,6])
DocstringCall ==
    /\ pc = "made"
    /\ size = 3
    /\ params = [a |-> List(<<1, 2, 3, 4, 5>>), b |-> List(<<2, 3, 4, 5, 6>>)]

NameRank == [a |-> 1, b |-> 2, c |-> 3]

\* The non-unmapped parameters of the call, and the first of them in
\* lexicographic order
NonUnmapped == {p \in DOMAIN params : ~is_unmapped(params[p])}
Reference ==
    CHOOSE p \in NonUnmapped : \A q \in NonUnmapped : NameRank[p] <= NameRank[q]

\* C32: _make_batches takes the reference length from the first
\* non-unmapped parameter in lexicographic order of the names (the keyword
\* order of the call plays no part); every other non-unmapped parameter is
\* compared with that length, and a mismatch error names the reference
\* parameter and the offending one.
C32_ReferenceLength ==
    (/\ pc # "make"
     /\ NonUnmapped # {}
     /\ \A p \in DOMAIN params : has_iter(params[p])) =>
       LET off == {p \in NonUnmapped : len(params[p]) # len(params[Reference])}
       IN  /\ off = {} =>
                /\ pc = "made"
                /\ \A n \in 1..Len(batches) :
                      len(batches[n][Reference])
                         = Min(size, len(params[Reference]) - (n - 1) * size)
                /\ Len(batches) = Ceil(len(params[Reference]), size)
           /\ off # {} =>
                /\ pc = "raised"
                /\ error.text = "Expected all iterables to be of length."
                /\ error.ref = Reference
                /\ error.length = len(params[Reference])
                /\ error.key \in off
                /\ \A p \in off : NameRank[error.key] <= NameRank[p]
                /\ error.klen = len(params[error.key])

C32_Witness ==
    /\ pc = "raised"
    /\ DOMAIN params = {"a", "b", "c"}
    /\ is_unmapped(params["a"])
    /\ len(params["b"]) = 1
    /\ len(params["c"]) = 4
    /\ error.ref = "b"
    /\ error.key = "c"
    /\ error.length = 1
    /\ error.klen = 4

---------------------------------------------------------------------------
(* Properties of BatchTask.map (Spec), fifth part *)

\* The state types of the engine, those the model's runs never take included
StateTypes == States \cup {"Scheduled", "Paused", "Cancelling"}

\* C33: is_terminal(state) is true iff the state is Cancelled, Completed,
\* Crashed or Failed, and false for every in-progress state (Pending,
\* Running, Scheduled, ...); the dispatcher's completion detection uses
\* exactly this set: the poll of a batch ends exactly when the state of
\* every future of the batch is one of the four.
C33_TerminalStates ==
    /\ \A state \in StateTypes :
          is_terminal(state)
             <=> state \in {"Cancelled", "Completed", "Crashed", "Failed"}
    /\ pc = "poll" =>
          (ENABLED Poll <=>
              \A k \in 1..Len(futures) :
                  get_state(futures[k])
                     \in {"Cancelled", "Completed", "Crashed", "Failed"})
    /\ pc \in {"check", "submit", "last", "returned"} =>
          \A k \in 1..Len(futures) :
              get_state(futures[k])
                 \in {"Cancelled", "Completed", "Crashed", "Failed"}

C33_Witness ==
    /\ pc = "last"
    /\ size = 2
    /\ Len(batches) = 2
    /\ futures = <<1, 2>>
    /\ get_state(1) = "Cancelled"
    /\ get_state(2) = "Crashed"

\* The submitted work items of this map call that are not yet terminal
InFlight == {f \in DOMAIN runs : ~is_terminal(get_state(f))}

\* C35: at every moment of a map call with positive size at most size
\* submitted work items are not yet terminal: items of at most one batch are
\* in flight at a time, because each batch, the last included, is submitted
\* only after all items of the previous batch are terminal.
C35_AtMostSizeInFlight ==
    (InCall /\ size > 0) =>
       /\ Cardinality(InFlight) <= size
       /\ \A f, g \in InFlight :
             \E n \in 1..Len(map_calls) : {f, g} \subseteq SubmittedBy(n)
       /\ pc \in {"submit", "last"} => InFlight = {}
       /\ \A f \in InFlight : f \in SubmittedBy(Len(map_calls))

C35_Witness ==
    /\ pc = "returned"
    /\ size = 1
    /\ Len(map_calls) = 3
    /\ get_state(1) = "Failed"
    /\ get_state(2) = "Completed"
    /\ get_state(3) = "Running"
    /\ InFlight = {3}

\* The thread that called map: it runs _map's statements one after the
\* other and wakes up from every time.sleep(0.5) of the poll loop
ControlThread == Submit \/ Poll \/ Check \/ Last

\* Spec with a control thread that keeps running; the engine's workers are
\* under no obligation
FairSpec == Spec /\ WF_vars(ControlThread)

\* _map is running
InMap == pc \in {"submit", "poll", "check", "last"}

\* C36: if every work item submitted in a non-final batch eventually
\* reaches a terminal state, map eventually terminates: it returns the
\* futures after submitting the last batch or raises KillSwitchError; it
\* never loops forever.
C36_MapTerminates ==
    ((pc = "poll" /\ BatchActive) ~> ~(pc = "poll" /\ BatchActive))
       => (InMap ~> (\/ pc = "returned" /\ Len(map_calls) = Len(batches)
                     \/ pc = "raised" /\ error.type = "KillSwitchError"))

C36_Witness ==
    /\ pc = "raised"
    /\ error.type = "KillSwitchError"
    /\ size = 1
    /\ Len(batches) = 3
    /\ Len(map_calls) = 2
    /\ AllRunsTerminal

\* C37: a BatchTask built with kill_switch None never raises
\* KillSwitchError and hands no outcome to a switch; once the items of a
\* non-final batch are terminal, whatever their outcomes (Failed, Crashed,
\* Cancelled or Completed), it goes on to the next batch, so that every
\* batch is submitted exactly once, in partition order.
C37_NoSwitchNeverAborts ==
    /\ [](~HasKillSwitch =>
            /\ error.type # "KillSwitchError"
            /\ observed = <<>>
            /\ pc # "check"
            /\ \A n \in 1..Len(map_calls) :
                  /\ map_calls[n].batch = n
                  /\ Len(map_calls[n].futures) = BatchLen(batches[n])
            /\ (pc = "poll" /\ ~BatchActive) => ENABLED Poll
            /\ pc = "submit" => (ENABLED Submit /\ Len(map_calls) = i - 1)
            /\ pc = "last" =>
                  (ENABLED Last /\ Len(map_calls) = Len(batches) - 1)
            /\ (pc = "returned" /\ InCall) => Len(map_calls) = Len(batches))
    /\ [][(~HasKillSwitch /\ pc = "poll" /\ pc' # "poll") =>
             /\ pc' = (IF i + 1 < Len(batches) THEN "submit" ELSE "last")
             /\ i' = i + 1
             /\ map_calls' = map_calls]_vars

C37_Witness ==
    /\ ~HasKillSwitch
    /\ pc = "returned"
    /\ size = 1
    /\ Len(map_calls) = 3
    /\ get_state(1) = "Failed"
    /\ get_state(2) = "Crashed"
    /\ get_state(3) = "Cancelled"

---------------------------------------------------------------------------
(* Properties of the kill switches (SwitchSpec), second part *)

\* C34: each call of should_flip_switch advances the switch by exactly one
\* observed outcome: after any sequence of k calls RateSwitch has
\* _current_count = k and _failed_count = the number of Failed/Crashed
\* states among them (so 0 <= _failed_count <= _current_count), CountSwitch
\* has _current_count = the number of Failed/Crashed states among them, and
\* no counter ever decreases.
C34_OneOutcomePerCall ==
    /\ [](pc = "switch" =>
            /\ Len(flips) = Len(fed)
            /\ kill_switch.kind = "RateSwitch" =>
                  /\ kill_switch.current_count = Len(fed)
                  /\ kill_switch.failed_count = NumFailures(fed, Len(fed))
                  /\ 0 <= kill_switch.failed_count
                  /\ kill_switch.failed_count <= kill_switch.current_count
            /\ kill_switch.kind = "CountSwitch" =>
                  kill_switch.current_count = NumFailures(fed, Len(fed)))
    /\ [][pc = "switch" =>
             /\ kill_switch'.current_count >= kill_switch.current_count
             /\ kill_switch'.failed_count >= kill_switch.failed_count
             /\ kill_switch'.current_count <= kill_switch.current_count + 1
             /\ kill_switch'.failed_count <= kill_switch.failed_count + 1]_vars

C34_Witness ==
    /\ pc = "switch"
    /\ kill_switch.kind = "RateSwitch"
    /\ fed = <<"Crashed", "Completed", "Failed", "Cancelled">>
    /\ kill_switch.current_count = 4
    /\ kill_switch.failed_count = 2

\* The value of self._current_count when should_flip_switch(state) of the
\* RateSwitch ks evaluates its return expression
RateDivisor(ks, state) ==
    RateSwitch_should_flip_switch(ks, state).ks.current_count

\* The return expression gets to its right operand, the division
RateDivides(ks, state) == RateDivisor(ks, state) >= ks.min_sample

\* C38: RateSwitch.should_flip_switch never divides by zero: for every
\* min_sample, 0 and negative values included, and every sequence of
\* states the observed-total counter is at least 1 whenever the failure
\* rate is computed.
C38_NoDivisionByZero ==
    (pc = "switch" /\ kill_switch.kind = "RateSwitch") =>
       /\ \A state \in States :
             RateDivides(kill_switch, state)
                => RateDivisor(kill_switch, state) >= 1
       /\ (Len(fed) >= 1 /\ kill_switch.current_count >= kill_switch.min_sample)
             => kill_switch.current_count >= 1

C38_Witness ==
    /\ pc = "switch"
    /\ kill_switch.kind = "RateSwitch"
    /\ kill_switch.min_sample < 0
    /\ fed = <<"Completed">>
    /\ kill_switch.current_count = 1
    /\ flips = <<FALSE>>

---------------------------------------------------------------------------
(* OldSpec: the BatchTask of the module file prefecto/concurrency.py, which
   has no kill switch and no unmapped arguments *)

UnboundLocalError == [NoError EXCEPT !.type = "UnboundLocalError"]
IndexError == [NoError EXCEPT !.type = "IndexError"]

\* One batch: the slice [lo:hi] of every parameter
OldBatchOf(ps, lo, hi) ==
    [p \in DOMAIN ps |-> List(Slice(ps[p].items, lo, hi))]

\* for i in range(length // self.size): the batches of the loop
OldFullBatches(sz, ps, length) ==
    [n \in 1..(length \div sz) |-> OldBatchOf(ps, (n - 1) * sz, n * sz)]

\* The loop variable i is bound after the for loop: the range was not empty
Old_i_bound(sz, length) == length \div sz > 0

\* The value of i after the for loop, when it is bound
Old_i(sz, length) == length \div sz - 1

\* The remainder batch, params[p][(i + 1) * self.size :]
OldRemainder(sz, ps, length) ==
    IF length % sz # 0
    THEN <<OldBatchOf(ps, (Old_i(sz, length) + 1) * sz, length)>>
    ELSE <<>>

\* Index of the first parameter after parameters[0] whose length differs
OldFirstMismatch(parameters, ps, length) ==
    FirstFrom(parameters, 2, {k \in DOMAIN ps : len(ps[k]) # length})

\* BatchTask._make_batches(**ps) of the old BatchTask of size sz:
\* [error, batches]
Old_make_batches(sz, ps) ==
    LET parameters == sorted(DOMAIN ps)
        bad == FirstFrom(parameters, 1, {k \in DOMAIN ps : ~has_iter(ps[k])})
        length == len(ps[parameters[1]])
        mis == OldFirstMismatch(parameters, ps, length)
    IN  IF Len(parameters) = 0
        THEN [error |-> ValueError("Must provide at least one iterable."),
              batches |-> <<>>]
        ELSE IF bad # 0
        THEN [error |-> [ValueError("Expected to be an iterable.")
                            EXCEPT !.key = parameters[bad]],
              batches |-> <<>>]
        ELSE IF mis # 0
        THEN [error |-> [ValueError("Expected all iterables to be of length.")
                            EXCEPT !.length = length, !.ref = parameters[1],
                                   !.key = parameters[mis],
                                   !.klen = len(ps[parameters[mis]])],
              batches |-> <<>>]
        ELSE IF length % sz # 0 /\ ~Old_i_bound(sz, length)
        THEN [error |-> UnboundLocalError, batches |-> <<>>]
        ELSE [error |-> NoError,
              batches |-> OldFullBatches(sz, ps, length)
                          \o OldRemainder(sz, ps, length)]

\* is_processing: bool = False, the value the while loop tests first
Old_is_processing == FALSE

\* Where _map goes after Task.map of batch n: into the while loop when
\* is_processing holds, else to the next batch of batches[:-1] or to the last
OldAfterMap(n, bs) ==
    IF Old_is_processing THEN "old_poll"
    ELSE IF n + 1 < Len(bs) THEN "old_submit" ELSE "old_last"

OldParams ==
    {[a |-> List(Iota(1, L)), b |-> List(Iota(2, L))] : L \in 0..MaxLen}
    \cup {[a |-> List(Iota(1, L))] : L \in 0..MaxLen}
    \cup {[a |-> List(Iota(1, L)), b |-> List(Iota(2, L - 1))] : L \in 1..2}
    \cup {[a |-> Scalar(1), b |-> List(Iota(2, 1))]}
    \cup {NoParams}

OldInit ==
    /\ size \in 1..MaxBatchSize
    /\ kill_switch = NoSwitch
    /\ ks0 = NoSwitch
    /\ pc = "old_idle"
    /\ calls = 0
    /\ params = NoParams
    /\ batches = <<>>
    /\ error = NoError
    /\ i = 0
    /\ j = 0
    /\ futures = <<>>
    /\ runs = <<>>
    /\ results = <<>>
    /\ map_calls = <<>>
    /\ observed = <<>>
    /\ fed = <<>>
    /\ flips = <<>>
    /\ OtherModulesInit

\* BatchTask.map(**p) up to the first Task.map call of _map; with no batch
\* the loop over batches[:-1] is empty and batches[-1] raises
OldMap(p) ==
    /\ pc \in {"old_idle", "old_returned", "old_raised"}
    /\ calls < MaxCalls
    /\ calls' = calls + 1
    /\ params' = p
    /\ map_calls' = <<>>
    /\ runs' = <<>>
    /\ results' = <<>>
    /\ futures' = <<>>
    /\ LET r == Old_make_batches(size, p)
       IN  /\ batches' = r.batches
           /\ IF r.error.type # "None"
              THEN pc' = "old_raised" /\ i' = 0 /\ error' = r.error
              ELSE IF Len(r.batches) = 0
              THEN pc' = "old_raised" /\ i' = 0 /\ error' = IndexError
              ELSE /\ pc' = (IF 1 < Len(r.batches)
                             THEN "old_submit" ELSE "old_last")
                   /\ i' = 1
                   /\ error' = NoError
    /\ UNCHANGED <<size, kill_switch, j, observed, ks0, fed, flips,
                   other_modules>>

\* One turn of the loop over batches[:-1]: Task.map of batch i, and the
\* while loop, which tests is_processing before any future is looked at
OldSubmit ==
    /\ pc = "old_submit"
    /\ LET new == TaskMap(batches[i])
           ids == [k \in 1..Len(new) |-> Len(runs) + k]
       IN  /\ runs' = runs \o new
           /\ futures' = ids
           /\ results' = results \o ids
    /\ map_calls' = Append(map_calls, [batch |-> i, futures |-> futures'])
    /\ pc' = OldAfterMap(i, batches)
    /\ i' = IF Old_is_processing THEN i ELSE i + 1
    /\ UNCHANGED <<size, kill_switch, calls, params, batches, error, j,
                   observed, ks0, fed, flips,
                   other_modules>>

\* results.extend(self.task.map(**batches[-1])); return results
OldLast ==
    /\ pc = "old_last"
    /\ LET new == TaskMap(batches[Len(batches)])
           ids == [k \in 1..Len(new) |-> Len(runs) + k]
       IN  /\ runs' = runs \o new
           /\ results' = results \o ids
           /\ map_calls' = Append(map_calls,
                                  [batch |-> Len(batches), futures |-> ids])
    /\ pc' = "old_returned"
    /\ UNCHANGED <<size, kill_switch, calls, params, batches, error, i, j,
                   futures, observed, ks0, fed, flips,
                   other_modules>>

OldNext ==
    \/ \E p \in OldParams : OldMap(p)
    \/ OldSubmit
    \/ OldLast
    \/ \E f \in DOMAIN runs : Start(f)
    \/ \E f \in DOMAIN runs : \E o \in {"Completed", "Failed", "Crashed"} :
           Finish(f, o)
    \/ \E f \in DOMAIN runs : Cancel(f)

OldSpec == OldInit /\ [][OldNext]_vars

\* C39: in the BatchTask of the module file prefecto/concurrency.py _map
\* polls the futures of each non-final batch until none is active: the next
\* batch is submitted only after every future of the current batch has
\* reached a terminal state.
C39_OldMapPolls ==
    \A n \in 1..(Len(map_calls) - 1) : \A f \in SubmittedBy(n) :
        is_terminal(get_state(f))

\* C40: for the BatchTask of the module file prefecto/concurrency.py map
\* handles every input length L >= 0 and every positive size, L = 0 and
\* 0 < L < size included: _make_batches returns ceil(L/size) batches whose
\* concatenation reconstructs the inputs, and map returns one future per
\* item in input order without raising (size 3 with a=[1,2], b=[2,3] gives
\* the futures of [3,5], a=[], b=[] gives []).
C40_OldMapEveryLength ==
    (calls >= 1 /\ EqualLengthLists) =>
       /\ error.type = "None"
       /\ pc # "old_raised"
       /\ Len(batches) = Ceil(CallLength, size)
       /\ \A p \in ListParams : Concat(SlicesOf(p)) = params[p].items
       /\ pc = "old_returned" =>
             /\ Len(results) = CallLength
             /\ \A k \in 1..Len(results) :
                   runs[results[k]].args = ItemArgs(k)

====
